---- MODULE Spec2Model ----
(***************************************************************************)
(* Record-to-result classification handlers of letsdata-python-examples:   *)
(*   DynamoDBTableItemReader.parseDynamoDBItem                             *)
(*   DynamoDBStreamsRecordReader.parseRecord                               *)
(*                                                                         *)
(* Python values are modelled as tagged records:                           *)
(*   [t |-> "none"]                 None                                   *)
(*   [t |-> "str",  s |-> <<..>>]   a str, as its sequence of characters   *)
(*   [t |-> "int",  n |-> 7]        an int                                 *)
(*   [t |-> "dict", d |-> <<..>>]   a dict, as its entries [k, v] in       *)
(*                                  iteration (insertion) order            *)
(* A str produced by str(uuid.uuid4()) is the one-element sequence         *)
(* <<"uuid-n">>: the 36 characters of a UUID text are kept as one token.   *)
(* An evaluation that can raise returns [ok |-> TRUE, val |-> v] or        *)
(* [ok |-> FALSE, ex |-> [cls |-> class, msg |-> message]].                *)
(***************************************************************************)
EXTENDS Integers, Sequences, FiniteSets, TLC

VARIABLES
    handler,    \* the handler the platform invokes: "parseDynamoDBItem" | "parseRecord"
    args,       \* the arguments of the invocation
    pc,         \* "call" before the invocation, "done" after it
    drawn,      \* the value uuid.uuid4() gave in the invocation (None when not called)
    outcome,    \* how the invocation ended: [kind |-> "return", value |-> ParseDocumentResult]
                \*                        or [kind |-> "raise",  ex |-> exception]
    thr,        \* concurrent invocations: per thread, its frame (pc, args, i, ex, result)
    mem,        \* concurrent invocations: the cells holding docId
    store,      \* Spark jobs: the rows stored at each uri of the read destination
    calls,      \* Spark jobs: the external calls made so far, in order
    locals      \* Spark jobs: the local variables of mapper / reducer

vars == <<handler, args, pc, drawn, outcome, thr, mem, store, calls, locals>>

\* the Spark variables outside a Spark job
NoStore == <<>>
NoCalls == <<>>
NoLocals == <<>>
sparkVars == <<store, calls, locals>>

----------------------------------------------------------------------------
(* Bounds of the model *)

\* the largest number of entries of a Key Mapping
MaxKeys == 2
\* the number of distinct values uuid.uuid4() can give
NumUUIDs == 2

----------------------------------------------------------------------------
(* Python values *)

None == [t |-> "none"]
PyStr(s) == [t |-> "str", s |-> s]
PyInt(n) == [t |-> "int", n |-> n]
PyDict(entries) == [t |-> "dict", d |-> entries]

Ok(v) == [ok |-> TRUE, val |-> v]
Raise(cls, msg) == [ok |-> FALSE, ex |-> [cls |-> cls, msg |-> msg]]

\* type(x).__name__, as it appears in the interpreter's messages
TypeName(x) ==
    CASE x.t = "none" -> "NoneType"
      [] x.t = "str"  -> "str"
      [] x.t = "int"  -> "int"
      [] x.t = "dict" -> "dict"

\* the separator literal '|'
Sep == <<"|">>

\* the text str(uuid.uuid4()) for the n-th value of the generator
UUIDText(n) == <<"uuid-" \o ToString(n)>>
UUIDs == {PyStr(UUIDText(n)) : n \in 1..NumUUIDs}

\* mutant: keys.keys(), the attribute names instead of the values
DictKeys(m) ==
    IF m.t = "dict"
    THEN Ok([j \in 1..Len(m.d) |-> PyStr(<<m.d[j].k>>)])
    ELSE Raise("AttributeError",
               "'" \o TypeName(m) \o "' object has no attribute 'keys'")

\* keys.values(): the values of a dict in iteration order; anything else here
\* (None) has no such attribute
DictValues(m) ==
    IF m.t = "dict"
    THEN Ok([j \in 1..Len(m.d) |-> m.d[j].v])
    ELSE Raise("AttributeError",
               "'" \o TypeName(m) \o "' object has no attribute 'values'")

\* len(x)
PyLen(x) ==
    CASE x.t = "dict" -> Ok(Len(x.d))
      [] x.t = "str"  -> Ok(Len(x.s))
      [] OTHER        -> Raise("TypeError",
                               "object of type '" \o TypeName(x) \o "' has no len()")

\* '|' + keyValue
SepPlus(keyValue) ==
    IF keyValue.t = "str"
    THEN Ok(PyStr(Sep \o keyValue.s))
    ELSE Raise("TypeError",
               "can only concatenate str (not \"" \o TypeName(keyValue) \o "\") to str")

\* docId += rhs, rhs a str
IAdd(docId, rhs) ==
    IF docId.t = "str"
    THEN Ok(PyStr(docId.s \o rhs.s))
    ELSE Raise("TypeError",
               "unsupported operand type(s) for +=: '" \o TypeName(docId) \o "' and 'str'")

\* the classes `except Exception` catches among those the handlers can raise
ExceptionClasses == {"Exception", "TypeError", "AttributeError"}

----------------------------------------------------------------------------
(* Result types (letsdata_interfaces.documents / .readers.model): each is   *)
(* the record of its constructor's positional arguments.                    *)

Document(documentType, documentId, recordType, partitionKey, documentMetadata, documentKeyValuesMap) ==
    [variant |-> "Document", documentType |-> documentType,
     documentId |-> documentId, recordType |-> recordType,
     partitionKey |-> partitionKey, documentMetadata |-> documentMetadata,
     documentKeyValuesMap |-> documentKeyValuesMap]

ErrorDoc(documentId, recordType, partitionKey, documentMetadata, documentKeyValuesMap, startOffsetMap, endOffsetMap, message) ==
    [variant |-> "ErrorDoc", documentId |-> documentId, recordType |-> recordType,
     partitionKey |-> partitionKey, documentMetadata |-> documentMetadata,
     documentKeyValuesMap |-> documentKeyValuesMap,
     startOffsetMap |-> startOffsetMap, endOffsetMap |-> endOffsetMap,
     message |-> message]

SkipDoc(documentId, recordType, partitionKey, documentMetadata, documentKeyValuesMap, startOffsetMap, endOffsetMap, message) ==
    [variant |-> "SkipDoc", documentId |-> documentId, recordType |-> recordType,
     partitionKey |-> partitionKey, documentMetadata |-> documentMetadata,
     documentKeyValuesMap |-> documentKeyValuesMap,
     startOffsetMap |-> startOffsetMap, endOffsetMap |-> endOffsetMap,
     message |-> message]

ParseDocumentResult(reserved, document, status) ==
    [reserved |-> reserved, document |-> document, status |-> status]

\* the dict literal {name: value}
Dict1(name, value) == PyDict(<<[k |-> name, v |-> value]>>)
EmptyDict == PyDict(<<>>)

\* how an invocation ends: it returns a value, or an exception leaves it
Return(value, logged) == [kind |-> "return", value |-> value, logged |-> logged]
Propagate(ex) == [kind |-> "raise", ex |-> ex]

----------------------------------------------------------------------------
(* DynamoDBTableItemReader.parseDynamoDBItem *)

\* mutant: the separator appended after the value instead of before it
ItemLoopBodyTrailing(docId, keyValue) ==
    IF docId.t = "none"
    THEN Ok(keyValue)
    ELSE IF keyValue.t = "str"
         THEN IAdd(docId, PyStr(keyValue.s \o Sep))
         ELSE Raise("TypeError",
                    "unsupported operand type(s) for +: '"
                       \o TypeName(keyValue) \o "' and 'str'")

\* one iteration of `for keyValue in keys.values()`
ItemLoopBody(docId, keyValue) ==
    IF docId.t = "none"
    THEN Ok(keyValue)
    ELSE LET rhs == SepPlus(keyValue)
         IN  IF rhs.ok THEN IAdd(docId, rhs.val) ELSE rhs

\* the iterations from the j-th value on
RECURSIVE ItemLoopFrom(_, _, _)
ItemLoopFrom(values, j, docId) ==
    IF j > Len(values)
    THEN Ok(docId)
    ELSE LET r == ItemLoopBody(docId, values[j])
         IN  IF r.ok THEN ItemLoopFrom(values, j + 1, r.val) ELSE r

\* mutant: docId = "" before the loop
ItemDocIdEmptyString(keys) ==
    LET values == DictValues(keys)
    IN  IF values.ok THEN ItemLoopFrom(values.val, 1, PyStr(<<>>)) ELSE values

\* docId : str = None, then the loop
ItemDocId(keys) ==
    LET values == DictValues(keys)
    IN  IF values.ok THEN ItemLoopFrom(values.val, 1, None) ELSE values

\* mutant: `len(item) <= 1`
ItemIsEmptyLe1(item) ==
    IF item.t = "none"
    THEN Ok(TRUE)
    ELSE LET n == PyLen(item)
         IN  IF n.ok THEN Ok(n.val <= 1) ELSE n

\* mutant: `len(item) < 0`
ItemIsEmptyLt0(item) ==
    IF item.t = "none"
    THEN Ok(TRUE)
    ELSE LET n == PyLen(item)
         IN  IF n.ok THEN Ok(n.val < 0) ELSE n

\* `item is None or len(item) <= 0`
ItemIsEmpty(item) ==
    IF item.t = "none"
    THEN Ok(TRUE)
    ELSE LET n == PyLen(item)
         IN  IF n.ok THEN Ok(n.val <= 0) ELSE n

\* mutant: the empty item reported with status "SKIP", as its log line says
ItemClassifySkip(a, docId) ==
    LET n == IF a.item.t = "none" THEN Ok(0) ELSE PyLen(a.item)
    IN  IF ~n.ok THEN n
        ELSE IF n.val <= 0
        THEN Ok([value |-> ParseDocumentResult(None,
                              ErrorDoc(docId, "DDB_ERROR", docId, EmptyDict, EmptyDict,
                                       Dict1("keys", a.keys), Dict1("keys", a.keys),
                                       "empty record"),
                              "SKIP"),
                 logged |-> <<"error">>])
        ELSE Ok([value |-> ParseDocumentResult(None,
                              Document("Document", docId, "DOCUMENT", docId,
                                       EmptyDict, a.item),
                              "SUCCESS"),
                 logged |-> <<"debug">>])

\* the statements after the loop, with docId derived
ItemClassify(a, docId) ==
    LET empty == ItemIsEmpty(a.item)
    IN  IF ~empty.ok THEN empty
        ELSE IF empty.val
        THEN Ok([value |-> ParseDocumentResult(None,
                              ErrorDoc(docId, "DDB_ERROR", docId, EmptyDict, EmptyDict,
                                       Dict1("keys", a.keys), Dict1("keys", a.keys),
                                       "empty record"),
                              "ERROR"),
                 logged |-> <<"error">>])
        ELSE Ok([value |-> ParseDocumentResult(None,
                              Document("Document", docId, "DOCUMENT", docId,
                                       EmptyDict, a.item),
                              "SUCCESS"),
                 logged |-> <<"debug">>])

\* mutant: the payload guard moved before the derivation
ItemTryGuardFirst(a) ==
    LET empty == ItemIsEmpty(a.item)
        d == ItemDocId(a.keys)
    IN  IF empty.ok /\ empty.val THEN ItemClassify(a, None)
        ELSE IF d.ok THEN ItemClassify(a, d.val) ELSE d

\* the try block
ItemTry(a) ==
    LET d == ItemDocId(a.keys)
    IN  IF d.ok THEN ItemClassify(a, d.val) ELSE d

\* mutant: `except TypeError as ex`
ItemCatchesTypeError(ex) == ex.cls = "TypeError"

\* `except Exception as ex`: whether the clause catches ex
ItemCatches(ex) == ex.cls \in ExceptionClasses

\* the except block, docIdUUID = str(uuid.uuid4()) being uuid
ItemExcept(a, ex, uuid) ==
    Return(ParseDocumentResult(None,
               ErrorDoc(uuid, "DDB_ERROR", uuid, EmptyDict, EmptyDict,
                        Dict1("keys", a.keys), Dict1("keys", a.keys),
                        "Exception - " \o ex.msg),
               "ERROR"),
           <<"debug">>)

\* whether the invocation calls uuid.uuid4()
ItemFaults(a) == ~ItemTry(a).ok /\ ItemCatches(ItemTry(a).ex)

parseDynamoDBItem(a, uuid) ==
    LET body == ItemTry(a)
    IN  IF body.ok THEN Return(body.val.value, body.val.logged)
        ELSE IF ItemCatches(body.ex) THEN ItemExcept(a, body.ex, uuid)
        ELSE Propagate(body.ex)

----------------------------------------------------------------------------
(* DynamoDBStreamsRecordReader.parseRecord *)

\* mutant: the values concatenated without the separator
RecordLoopBodyNoSep(docId, keyValue) ==
    IF docId.t = "none"
    THEN Ok(keyValue)
    ELSE IF keyValue.t = "str"
         THEN IAdd(docId, keyValue)
         ELSE Raise("TypeError",
                    "can only concatenate str (not \"" \o TypeName(keyValue) \o "\") to str")

\* one iteration of `for keyValue in keys.values()`
RecordLoopBody(docId, keyValue) ==
    IF docId.t = "none"
    THEN Ok(keyValue)
    ELSE LET rhs == SepPlus(keyValue)
         IN  IF rhs.ok THEN IAdd(docId, rhs.val) ELSE rhs

\* the iterations from the j-th value on
RECURSIVE RecordLoopFrom(_, _, _)
RecordLoopFrom(values, j, docId) ==
    IF j > Len(values)
    THEN Ok(docId)
    ELSE LET r == RecordLoopBody(docId, values[j])
         IN  IF r.ok THEN RecordLoopFrom(values, j + 1, r.val) ELSE r

\* docId : str = None, then the loop
RecordDocId(keys) ==
    LET values == DictValues(keys)
    IN  IF values.ok THEN RecordLoopFrom(values.val, 1, None) ELSE values

\* mutant: `len(newImage) <= 1`
RecordIsEmptyLe1(newImage) ==
    IF newImage.t = "none"
    THEN Ok(TRUE)
    ELSE LET n == PyLen(newImage)
         IN  IF n.ok THEN Ok(n.val <= 1) ELSE n

\* `newImage is None or len(newImage) <= 0`
RecordIsEmpty(newImage) ==
    IF newImage.t = "none"
    THEN Ok(TRUE)
    ELSE LET n == PyLen(newImage)
         IN  IF n.ok THEN Ok(n.val <= 0) ELSE n

\* mutant: only a REMOVE event without a new image is skipped
RecordClassifyOnRemove(a, docId) ==
    LET n == IF a.newImage.t = "none" THEN Ok(0) ELSE PyLen(a.newImage)
    IN  IF ~n.ok THEN n
        ELSE IF n.val <= 0 /\ a.eventName = "REMOVE"
        THEN Ok([value |-> ParseDocumentResult(None,
                              SkipDoc(docId, "DYNAMODBSTREAMS_SKIP", docId,
                                      EmptyDict, EmptyDict,
                                      Dict1("sequenceNumber", a.sequenceNumber),
                                      Dict1("sequenceNumber", a.sequenceNumber),
                                      "delete record"),
                              "SKIP"),
                 logged |-> <<"error">>])
        ELSE Ok([value |-> ParseDocumentResult(None,
                              Document("Document", docId, "DOCUMENT", docId,
                                       EmptyDict, a.newImage),
                              "SUCCESS"),
                 logged |-> <<"debug", "debug">>])

\* mutant: a record without a new image falls back to its old image
RecordClassifyOldImage(a, docId) ==
    LET n == IF a.newImage.t = "none" THEN Ok(0) ELSE PyLen(a.newImage)
        image == IF n.ok /\ n.val <= 0 /\ a.oldImage.t = "dict" /\ Len(a.oldImage.d) > 0
                 THEN a.oldImage ELSE a.newImage
    IN  IF ~n.ok THEN n
        ELSE IF image.t = "none" \/ Len(image.d) <= 0
        THEN Ok([value |-> ParseDocumentResult(None,
                              SkipDoc(docId, "DYNAMODBSTREAMS_SKIP", docId,
                                      EmptyDict, EmptyDict,
                                      Dict1("sequenceNumber", a.sequenceNumber),
                                      Dict1("sequenceNumber", a.sequenceNumber),
                                      "delete record"),
                              "SKIP"),
                 logged |-> <<"error">>])
        ELSE Ok([value |-> ParseDocumentResult(None,
                              Document("Document", docId, "DOCUMENT", docId,
                                       EmptyDict, image),
                              "SUCCESS"),
                 logged |-> <<"debug", "debug">>])

\* the statements after the loop, with docId derived
RecordClassify(a, docId) ==
    LET empty == RecordIsEmpty(a.newImage)
    IN  IF ~empty.ok THEN empty
        ELSE IF empty.val
        THEN Ok([value |-> ParseDocumentResult(None,
                              SkipDoc(docId, "DYNAMODBSTREAMS_SKIP", docId,
                                      EmptyDict, EmptyDict,
                                      Dict1("sequenceNumber", a.sequenceNumber),
                                      Dict1("sequenceNumber", a.sequenceNumber),
                                      "delete record"),
                              "SKIP"),
                 logged |-> <<"error">>])
        ELSE Ok([value |-> ParseDocumentResult(None,
                              Document("Document", docId, "DOCUMENT", docId,
                                       EmptyDict, a.newImage),
                              "SUCCESS"),
                 logged |-> <<"debug", "debug">>])

\* the try block
RecordTry(a) ==
    LET d == RecordDocId(a.keys)
    IN  IF d.ok THEN RecordClassify(a, d.val) ELSE d

\* `except Exception as ex`: whether the clause catches ex
RecordCatches(ex) == ex.cls \in ExceptionClasses

\* mutant: the table-item handler's except block, copied unchanged
RecordExceptCopied(a, ex, uuid) ==
    Return(ParseDocumentResult(None,
               ErrorDoc(uuid, "DDB_ERROR", uuid, EmptyDict, EmptyDict,
                        Dict1("keys", a.keys), Dict1("keys", a.keys),
                        "Exception - " \o ex.msg),
               "ERROR"),
           <<"debug">>)

\* the except block, docIdUUID = str(uuid.uuid4()) being uuid
RecordExcept(a, ex, uuid) ==
    Return(ParseDocumentResult(None,
               ErrorDoc(uuid, "KINESIS_ERROR", uuid, EmptyDict, EmptyDict,
                        Dict1("sequenceNumber", a.sequenceNumber),
                        Dict1("sequenceNumber", a.sequenceNumber),
                        "Exception - " \o ex.msg),
               "ERROR"),
           <<"debug">>)

\* whether the invocation calls uuid.uuid4()
RecordFaults(a) == ~RecordTry(a).ok /\ RecordCatches(RecordTry(a).ex)

parseRecord(a, uuid) ==
    LET body == RecordTry(a)
    IN  IF body.ok THEN Return(body.val.value, body.val.logged)
        ELSE IF RecordCatches(body.ex) THEN RecordExcept(a, body.ex, uuid)
        ELSE Propagate(body.ex)

----------------------------------------------------------------------------
(* The records the platform hands to the handlers *)

\* the texts of the str key values: empty, plain, holding the separator,
\* and one in the format of a UUID
KeyTexts == {<<>>, <<"A">>, <<"B">>, <<"|">>, <<"A", "|", "B">>, UUIDText(1)}

\* key values: strings, and the non-strings int and None
KeyValues == {PyStr(s) : s \in KeyTexts} \cup {PyInt(7), None}

\* attribute names of the key schema, by position
KeyName(j) == IF j = 1 THEN "pk" ELSE IF j = 2 THEN "sk" ELSE "k" \o ToString(j)

\* the dict with values vs[1..n] under the key schema's names
KeyDict(vs) == PyDict([j \in 1..Len(vs) |-> [k |-> KeyName(j), v |-> vs[j]]])

\* keys: absent, or a mapping of 0..MaxKeys entries
KeyMappings ==
    {None} \cup UNION {{KeyDict(vs) : vs \in [1..n -> KeyValues]} : n \in 0..MaxKeys}

\* item / newImage: absent, empty, non-empty, or an object without a length
Payloads ==
    {None, EmptyDict,
     Dict1("x", PyStr(<<"1">>)),
     PyDict(<<[k |-> "x", v |-> PyStr(<<"1">>)], [k |-> "y", v |-> PyInt(2)]>>),
     PyInt(5)}

OldImages == {None, EmptyDict, Dict1("x", PyStr(<<"0">>))}

EventNames == {"INSERT", "MODIFY", "REMOVE"}

SequenceNumbers == {PyStr(<<"100">>), PyStr(<<"200">>)}

ItemArgs ==
    [tableName : {"table"}, segmentNumber : {0}, keys : KeyMappings, item : Payloads]

RecordArgs ==
    [streamArn : {"arn"}, shardId : {"shard"}, eventId : {"event"},
     eventName : EventNames, identityPrincipalId : {"principal"},
     identityType : {"Service"}, sequenceNumber : SequenceNumbers,
     sizeBytes : {64}, streamViewType : {"NEW_AND_OLD_IMAGES"},
     approximateCreationDateTime : {1700000000},
     keys : KeyMappings, oldImage : OldImages, newImage : Payloads]

\* the str values present in the arguments of an invocation
KeyStrings(keys) ==
    IF keys.t = "dict" THEN {keys.d[j].v : j \in 1..Len(keys.d)} ELSE {}

\* uuid.uuid4(): 122 random bits; any UUID that is not already a value of the
\* invocation (the generator's values are taken to be new ones)
Uuid4(a) == UUIDs \ KeyStrings(a.keys)

----------------------------------------------------------------------------
(* Spec: the platform invokes a handler on one record *)

NoThreads == <<>>

Init ==
    /\ handler \in {"parseDynamoDBItem", "parseRecord"}
    /\ args \in IF handler = "parseDynamoDBItem" THEN ItemArgs ELSE RecordArgs
    /\ pc = "call"
    /\ drawn = None
    /\ outcome = [kind |-> "none"]
    /\ thr = NoThreads
    /\ mem = NoThreads
    /\ store = NoStore
    /\ calls = NoCalls
    /\ locals = NoLocals

ParseDynamoDBItem ==
    /\ pc = "call"
    /\ handler = "parseDynamoDBItem"
    /\ \E uuid \in Uuid4(args) :
          /\ outcome' = parseDynamoDBItem(args, uuid)
          /\ drawn' = IF ItemFaults(args) THEN uuid ELSE None
    /\ pc' = "done"
    /\ UNCHANGED <<handler, args, thr, mem>>
    /\ UNCHANGED sparkVars

ParseRecord ==
    /\ pc = "call"
    /\ handler = "parseRecord"
    /\ \E uuid \in Uuid4(args) :
          /\ outcome' = parseRecord(args, uuid)
          /\ drawn' = IF RecordFaults(args) THEN uuid ELSE None
    /\ pc' = "done"
    /\ UNCHANGED <<handler, args, thr, mem>>
    /\ UNCHANGED sparkVars

Next == ParseDynamoDBItem \/ ParseRecord

Spec == Init /\ [][Next]_vars

----------------------------------------------------------------------------
(* Vocabulary of the claims, stated on the inputs and not through the      *)
(* handlers' definitions                                                   *)

Done == pc = "done"
IsItem == handler = "parseDynamoDBItem"
IsRecord == handler = "parseRecord"

\* the payload argument of the invocation
PayloadOf(h, a) == IF h = "parseDynamoDBItem" THEN a.item ELSE a.newImage

\* a Key Mapping of the data model: a mapping whose values are strings
IsKeyMapping(keys) ==
    keys.t = "dict" /\ \A j \in 1..Len(keys.d) : keys.d[j].v.t = "str"

\* texts joined with '|', from the right
RECURSIVE JoinTexts(_)
JoinTexts(texts) ==
    IF Len(texts) = 1 THEN texts[1]
    ELSE texts[1] \o Sep \o JoinTexts(Tail(texts))

KeyTextsOf(keys) == [j \in 1..Len(keys.d) |-> keys.d[j].v.s]

\* the Derived Identifier of a Key Mapping; undefined (None) for the empty one
DerivedIdentifier(keys) ==
    IF Len(keys.d) = 0 THEN None ELSE PyStr(JoinTexts(KeyTextsOf(keys)))

RECURSIVE SumLen(_)
SumLen(texts) == IF texts = <<>> THEN 0 ELSE Len(texts[1]) + SumLen(Tail(texts))

\* the number of '|' characters of a text
CountSep(text) == Cardinality({p \in 1..Len(text) : text[p] = "|"})

PayloadAbsentOrEmpty(p) == p = None \/ p = EmptyDict
PayloadNonEmpty(p) == p.t = "dict" /\ Len(p.d) > 0
PayloadHasNoLength(p) == p.t \notin {"none", "dict", "str"}

\* the first entry of keys whose value is not None (0 when there is none)
FirstSet(keys) ==
    IF \E j \in 1..Len(keys.d) : keys.d[j].v # None
    THEN CHOOSE j \in 1..Len(keys.d) :
            /\ keys.d[j].v # None
            /\ \A l \in 1..(j - 1) : keys.d[l].v = None
    ELSE 0

\* the '|' concatenation raises: a second value is appended and it, or the
\* identifier so far, is not a string
ConcatRaises(keys) ==
    /\ keys.t = "dict"
    /\ FirstSet(keys) > 0
    /\ FirstSet(keys) < Len(keys.d)
    /\ \E j \in FirstSet(keys)..Len(keys.d) : keys.d[j].v.t # "str"

\* the inputs on which a fault is raised during derivation or classification
FaultRaised(h, a) ==
    \/ a.keys.t # "dict"
    \/ ConcatRaises(a.keys)
    \/ PayloadHasNoLength(PayloadOf(h, a))

ResultOf == outcome.value
DocOf == outcome.value.document

\* the draw to replay an invocation with
DrawOr(u) == IF drawn = None THEN u ELSE drawn

----------------------------------------------------------------------------
ResultTriple ==
    Done =>
        /\ outcome.kind = "return"
        /\ DOMAIN ResultOf = {"reserved", "document", "status"}
        /\ ResultOf.reserved = None
        /\ ResultOf.status \in {"SUCCESS", "SKIP", "ERROR"}
        /\ ResultOf.status = "SUCCESS" <=> DocOf.variant = "Document"
        /\ ResultOf.status = "SKIP" <=> DocOf.variant = "SkipDoc"
        /\ ResultOf.status = "ERROR" <=> DocOf.variant = "ErrorDoc"
        /\ IsItem => ResultOf.status # "SKIP"

\* the table-item handler on an empty item: the branch that logs "returning skip"
ResultTripleWitness ==
    /\ Done /\ IsItem
    /\ args.item = EmptyDict
    /\ ResultOf.status = "ERROR"
    /\ DocOf.variant = "ErrorDoc"

(* C3. Table item, success: for a Key Mapping and any non-empty item,       *)
(* parseDynamoDBItem returns SUCCESS with a Document whose identifier and   *)
(* partition key are the Derived Identifier, whose tag is "DOCUMENT", whose *)
(* metadata is empty and whose payload is the item itself.                  *)
ItemSuccess ==
    (Done /\ IsItem /\ IsKeyMapping(args.keys) /\ PayloadNonEmpty(args.item)) =>
        /\ outcome.kind = "return"
        /\ ResultOf.status = "SUCCESS"
        /\ DocOf.variant = "Document"
        /\ DocOf.documentId = DerivedIdentifier(args.keys)
        /\ DocOf.partitionKey = DerivedIdentifier(args.keys)
        /\ DocOf.recordType = "DOCUMENT"
        /\ DocOf.documentMetadata = EmptyDict
        /\ DocOf.documentKeyValuesMap = args.item

ItemSuccessWitness ==
    /\ Done /\ IsItem
    /\ args.keys = KeyDict(<<PyStr(<<"A">>), PyStr(<<"B">>)>>)
    /\ args.item = Dict1("x", PyStr(<<"1">>))
    /\ ResultOf.status = "SUCCESS"
    /\ DocOf.documentId = PyStr(<<"A", "|", "B">>)

(* C4. Table item, empty payload: for a Key Mapping and an item that is {}  *)
(* or absent, parseDynamoDBItem returns ERROR with an ErrorDoc of reason     *)
(* code "DDB_ERROR" and reason text "empty record", whose identifier and     *)
(* partition key are the Derived Identifier (uuid4 is not called) and whose  *)
(* two metadata slots both hold {"keys": Key Mapping}.                       *)
ItemEmpty ==
    (Done /\ IsItem /\ IsKeyMapping(args.keys) /\ PayloadAbsentOrEmpty(args.item)) =>
        /\ outcome.kind = "return"
        /\ ResultOf.status = "ERROR"
        /\ DocOf.variant = "ErrorDoc"
        /\ DocOf.recordType = "DDB_ERROR"
        /\ DocOf.message = "empty record"
        /\ DocOf.documentId = DerivedIdentifier(args.keys)
        /\ DocOf.partitionKey = DerivedIdentifier(args.keys)
        /\ drawn = None
        /\ DocOf.startOffsetMap = Dict1("keys", args.keys)
        /\ DocOf.endOffsetMap = Dict1("keys", args.keys)

ItemEmptyWitness ==
    /\ Done /\ IsItem
    /\ args.keys = KeyDict(<<PyStr(<<"A">>)>>)
    /\ args.item = EmptyDict
    /\ DocOf.message = "empty record"
    /\ DocOf.documentId = PyStr(<<"A">>)

(* C5. Stream record, deletion: for a Key Mapping and a newImage that is {} *)
(* or absent, parseRecord returns SKIP with a SkipDoc of reason code         *)
(* "DYNAMODBSTREAMS_SKIP" and reason text "delete record", whose identifier  *)
(* and partition key are the Derived Identifier and whose two metadata slots *)
(* both hold {"sequenceNumber": sequenceNumber}; the result is the same for  *)
(* every eventName.                                                          *)
RecordDelete ==
    (Done /\ IsRecord /\ IsKeyMapping(args.keys) /\ PayloadAbsentOrEmpty(args.newImage)) =>
        /\ outcome.kind = "return"
        /\ ResultOf.status = "SKIP"
        /\ DocOf.variant = "SkipDoc"
        /\ DocOf.recordType = "DYNAMODBSTREAMS_SKIP"
        /\ DocOf.message = "delete record"
        /\ DocOf.documentId = DerivedIdentifier(args.keys)
        /\ DocOf.partitionKey = DerivedIdentifier(args.keys)
        /\ DocOf.startOffsetMap = Dict1("sequenceNumber", args.sequenceNumber)
        /\ DocOf.endOffsetMap = Dict1("sequenceNumber", args.sequenceNumber)
        /\ \A e \in EventNames, u \in UUIDs :
              parseRecord([args EXCEPT !.eventName = e], u).value = ResultOf

\* an INSERT event without a new image is skipped as a delete record
RecordDeleteWitness ==
    /\ Done /\ IsRecord
    /\ args.eventName = "INSERT"
    /\ args.keys = KeyDict(<<PyStr(<<"A">>)>>)
    /\ args.newImage = None
    /\ ResultOf.status = "SKIP"
    /\ DocOf.documentId = PyStr(<<"A">>)

(* C6. Stream record, success: for a Key Mapping and any non-empty newImage, *)
(* parseRecord returns SUCCESS with a Document whose identifier and          *)
(* partition key are the Derived Identifier, whose tag is "DOCUMENT" and     *)
(* whose payload is newImage itself.                                         *)
RecordSuccess ==
    (Done /\ IsRecord /\ IsKeyMapping(args.keys) /\ PayloadNonEmpty(args.newImage)) =>
        /\ outcome.kind = "return"
        /\ ResultOf.status = "SUCCESS"
        /\ DocOf.variant = "Document"
        /\ DocOf.documentId = DerivedIdentifier(args.keys)
        /\ DocOf.partitionKey = DerivedIdentifier(args.keys)
        /\ DocOf.recordType = "DOCUMENT"
        /\ DocOf.documentKeyValuesMap = args.newImage

RecordSuccessWitness ==
    /\ Done /\ IsRecord
    /\ args.keys = KeyDict(<<PyStr(<<"A">>), PyStr(<<"B">>)>>)
    /\ args.newImage = Dict1("x", PyStr(<<"1">>))
    /\ args.oldImage = Dict1("x", PyStr(<<"0">>))
    /\ ResultOf.status = "SUCCESS"
    /\ DocOf.documentKeyValuesMap = Dict1("x", PyStr(<<"1">>))

IdentifierDerivation ==
    (IsKeyMapping(args.keys) /\ Len(args.keys.d) > 0) =>
        LET texts == KeyTextsOf(args.keys)
            n == Len(texts)
            joined == JoinTexts(texts)
            item == ItemDocId(args.keys)
            record == RecordDocId(args.keys)
        IN  /\ item = Ok(PyStr(joined))
            /\ record = Ok(PyStr(joined))
            /\ Len(item.val.s) = SumLen(texts) + (n - 1)
            /\ SubSeq(item.val.s, 1, Len(texts[1])) = texts[1]
            /\ SubSeq(item.val.s, Len(joined) - Len(texts[n]) + 1, Len(joined)) = texts[n]
            /\ CountSep(record.val.s)
                  = (n - 1) + SumLen([j \in 1..n |-> SelectSeq(texts[j], LAMBDA c : c = "|")])
            /\ (Done /\ ~PayloadHasNoLength(PayloadOf(handler, args))) =>
                  DocOf.documentId = PyStr(joined)

\* two keys in schema order, the second holding the separator itself
IdentifierDerivationWitness ==
    /\ Done /\ IsItem
    /\ args.keys = KeyDict(<<PyStr(<<"B">>), PyStr(<<"A", "|", "B">>)>>)
    /\ DocOf.documentId = PyStr(<<"B", "|", "A", "|", "B">>)

(* C9. Fault ErrorDoc: when a fault is raised the freshly generated value   *)
(* is both identifier and partition key, the reason text is "Exception - "   *)
(* followed by the fault's message, and parseDynamoDBItem gives reason code  *)
(* "DDB_ERROR" with {"keys": Key Mapping} in both metadata slots while       *)
(* parseRecord gives "KINESIS_ERROR" with {"sequenceNumber": sequenceNumber} *)
(* in both.                                                                  *)
FaultMessage(h, a) ==
    IF a.keys.t # "dict"
    THEN "'NoneType' object has no attribute 'values'"
    ELSE IF ConcatRaises(a.keys)
    THEN LET f == FirstSet(a.keys)
             first == a.keys.d[f].v
             second == a.keys.d[f + 1].v
             bad == CHOOSE j \in (f + 1)..Len(a.keys.d) :
                       /\ a.keys.d[j].v.t # "str"
                       /\ \A l \in (f + 1)..(j - 1) : a.keys.d[l].v.t = "str"
         IN  IF first.t = "str"
             THEN "can only concatenate str (not \""
                     \o TypeName(a.keys.d[bad].v) \o "\") to str"
             ELSE IF second.t # "str"
             THEN "can only concatenate str (not \"" \o TypeName(second) \o "\") to str"
             ELSE "unsupported operand type(s) for +=: '"
                     \o TypeName(first) \o "' and 'str'"
    ELSE "object of type '" \o TypeName(PayloadOf(h, a)) \o "' has no len()"

FaultErrorDoc ==
    (Done /\ FaultRaised(handler, args)) =>
        /\ outcome.kind = "return"
        /\ DocOf.variant = "ErrorDoc"
        /\ drawn \in UUIDs
        /\ DocOf.documentId = drawn
        /\ DocOf.partitionKey = drawn
        /\ DocOf.message = "Exception - " \o FaultMessage(handler, args)
        /\ DocOf.documentMetadata = EmptyDict
        /\ DocOf.documentKeyValuesMap = EmptyDict
        /\ IsItem =>
              /\ DocOf.recordType = "DDB_ERROR"
              /\ DocOf.startOffsetMap = Dict1("keys", args.keys)
              /\ DocOf.endOffsetMap = Dict1("keys", args.keys)
        /\ IsRecord =>
              /\ DocOf.recordType = "KINESIS_ERROR"
              /\ DocOf.startOffsetMap = Dict1("sequenceNumber", args.sequenceNumber)
              /\ DocOf.endOffsetMap = Dict1("sequenceNumber", args.sequenceNumber)

\* the stream handler with keys absent
FaultErrorDocWitness ==
    /\ Done /\ IsRecord
    /\ args.keys = None
    /\ DocOf.recordType = "KINESIS_ERROR"
    /\ DocOf.message = "Exception - 'NoneType' object has no attribute 'values'"
    /\ DocOf.documentId \in UUIDs

----------------------------------------------------------------------------
(* SpecConc: the platform runs invocations concurrently, statement by       *)
(* statement. Each thread invokes a handler instance on a record of its     *)
(* own; threads may share an instance. The cells of mem are the frames of   *)
(* the invocations (one per thread) and the attribute dicts of the          *)
(* instances; a cell records its value and the thread that wrote it.        *)

Threads == {"t1", "t2"}
Instances == {"reader1", "reader2"}

\* a cell that holds nothing: no local bound, no attribute set
Unset == [t |-> "unset"]
EmptyCell == [val |-> Unset, writer |-> "nobody"]

ConcKeys ==
    {None, KeyDict(<<PyStr(<<"A">>)>>), KeyDict(<<PyStr(<<"A">>), PyStr(<<"B">>)>>),
     KeyDict(<<PyStr(<<"B">>), PyInt(7)>>)}

ConcPayloads == {EmptyDict, Dict1("x", PyStr(<<"1">>)), PyInt(5)}

ConcItemArgs ==
    [tableName : {"table"}, segmentNumber : {0}, keys : ConcKeys, item : ConcPayloads]

ConcRecordArgs ==
    [streamArn : {"arn"}, shardId : {"shard"}, eventId : {"event"},
     eventName : {"MODIFY"}, identityPrincipalId : {"principal"},
     identityType : {"Service"}, sequenceNumber : {PyStr(<<"100">>)},
     sizeBytes : {64}, streamViewType : {"NEW_AND_OLD_IMAGES"},
     approximateCreationDateTime : {1700000000},
     keys : ConcKeys, oldImage : {None}, newImage : ConcPayloads]

ConcArgs(h) == IF h = "parseDynamoDBItem" THEN ConcItemArgs ELSE ConcRecordArgs

\* __init__: `pass`, the new instance has no attribute
NewInstance == EmptyCell

\* mutant: docId kept as an attribute of the handler instance (self.docId)
DocIdCellAttribute(t, inst) == inst

\* where docId lives: a local of the invocation's own frame
DocIdCell(t, inst) == t

NoException == [cls |-> "", msg |-> ""]
NoOutcome == [kind |-> "none"]

IdleFrame ==
    [pc |-> "idle", handler |-> "none", inst |-> "none", args |-> None,
     values |-> <<>>, j |-> 0, ex |-> NoException, result |-> NoOutcome,
     foreign |-> FALSE]

InitConc ==
    /\ handler = "none"
    /\ args = None
    /\ pc = "concurrent"
    /\ drawn = None
    /\ outcome = NoOutcome
    /\ thr = [t \in Threads |-> IdleFrame]
    /\ mem = [c \in Threads \cup Instances |->
                 IF c \in Instances THEN NewInstance ELSE EmptyCell]
    /\ store = NoStore
    /\ calls = NoCalls
    /\ locals = NoLocals

LoopBodyOf(h, docId, keyValue) ==
    IF h = "parseDynamoDBItem" THEN ItemLoopBody(docId, keyValue)
                               ELSE RecordLoopBody(docId, keyValue)

ClassifyOf(h, a, docId) ==
    IF h = "parseDynamoDBItem" THEN ItemClassify(a, docId) ELSE RecordClassify(a, docId)

CatchesOf(h, ex) ==
    IF h = "parseDynamoDBItem" THEN ItemCatches(ex) ELSE RecordCatches(ex)

ExceptOf(h, a, ex, uuid) ==
    IF h = "parseDynamoDBItem" THEN ItemExcept(a, ex, uuid) ELSE RecordExcept(a, ex, uuid)

\* thread t reads cell c: foreign when another thread wrote it last
ReadsForeign(t, c) == mem[c].writer \notin {t, "nobody"}

\* the call, `docId : str = None` and the evaluation of keys.values()
Invoke(t) ==
    /\ thr[t].pc = "idle"
    /\ \E h \in {"parseDynamoDBItem", "parseRecord"}, inst \in Instances :
       \E a \in ConcArgs(h) :
          LET values == DictValues(a.keys)
              cell == DocIdCell(t, inst)
          IN  /\ mem' = [mem EXCEPT ![cell] = [val |-> None, writer |-> t]]
              /\ thr' = [thr EXCEPT ![t] =
                            [IdleFrame EXCEPT
                                !.handler = h, !.inst = inst, !.args = a,
                                !.pc = IF values.ok THEN "loop" ELSE "except",
                                !.values = IF values.ok THEN values.val ELSE <<>>,
                                !.j = 1,
                                !.ex = IF values.ok THEN NoException ELSE values.ex]]
    /\ UNCHANGED <<handler, args, pc, drawn, outcome>>
    /\ UNCHANGED sparkVars

\* one iteration of the loop
LoopStep(t) ==
    /\ thr[t].pc = "loop"
    /\ thr[t].j <= Len(thr[t].values)
    /\ LET cell == DocIdCell(t, thr[t].inst)
           r == LoopBodyOf(thr[t].handler, mem[cell].val, thr[t].values[thr[t].j])
       IN  IF r.ok
           THEN /\ mem' = [mem EXCEPT ![cell] = [val |-> r.val, writer |-> t]]
                /\ thr' = [thr EXCEPT ![t].j = @ + 1,
                                      ![t].foreign = @ \/ ReadsForeign(t, cell)]
           ELSE /\ mem' = mem
                /\ thr' = [thr EXCEPT ![t].pc = "except", ![t].ex = r.ex,
                                      ![t].foreign = @ \/ ReadsForeign(t, cell)]
    /\ UNCHANGED <<handler, args, pc, drawn, outcome>>
    /\ UNCHANGED sparkVars

\* the statements after the loop, to the return
Classify(t) ==
    /\ thr[t].pc = "loop"
    /\ thr[t].j > Len(thr[t].values)
    /\ LET cell == DocIdCell(t, thr[t].inst)
           r == ClassifyOf(thr[t].handler, thr[t].args, mem[cell].val)
       IN  thr' = [thr EXCEPT
                      ![t].pc = IF r.ok THEN "done" ELSE "except",
                      ![t].result = IF r.ok THEN Return(r.val.value, r.val.logged)
                                            ELSE NoOutcome,
                      ![t].ex = IF r.ok THEN NoException ELSE r.ex,
                      ![t].foreign = @ \/ ReadsForeign(t, cell)]
    /\ UNCHANGED <<handler, args, pc, drawn, outcome, mem>>
    /\ UNCHANGED sparkVars

\* the except clause
Except(t) ==
    /\ thr[t].pc = "except"
    /\ \E uuid \in Uuid4(thr[t].args) :
          thr' = [thr EXCEPT
                     ![t].pc = "done",
                     ![t].result = IF CatchesOf(thr[t].handler, thr[t].ex)
                                   THEN ExceptOf(thr[t].handler, thr[t].args,
                                                 thr[t].ex, uuid)
                                   ELSE Propagate(thr[t].ex)]
    /\ UNCHANGED <<handler, args, pc, drawn, outcome, mem>>
    /\ UNCHANGED sparkVars

\* the platform takes the result; the frame of the invocation is gone
Collect(t) ==
    /\ thr[t].pc = "done"
    /\ thr' = [thr EXCEPT ![t] = IdleFrame]
    /\ mem' = [mem EXCEPT ![t] = EmptyCell]
    /\ UNCHANGED <<handler, args, pc, drawn, outcome>>
    /\ UNCHANGED sparkVars

NextConc ==
    \E t \in Threads :
        Invoke(t) \/ LoopStep(t) \/ Classify(t) \/ Except(t) \/ Collect(t)

SpecConc == InitConc /\ [][NextConc]_vars

\* the result of the invocation when it runs alone, its draw being uuid
Alone(h, a, uuid) ==
    IF h = "parseDynamoDBItem" THEN parseDynamoDBItem(a, uuid) ELSE parseRecord(a, uuid)

(* C10. Statelessness under concurrency: in every interleaving of           *)
(* invocations on one handler instance or several, each invocation returns  *)
(* what it returns when run alone: the same status, variant, reason code,   *)
(* reason text, context and, outside the fault path, the same identifier    *)
(* and payload (on the fault path the identifier is its own uuid4 draw); no *)
(* invocation reads a value another invocation wrote, and no handler        *)
(* instance ever has an attribute.                                          *)
Stateless ==
    /\ \A inst \in Instances : mem[inst] = NewInstance
    /\ \A t \in Threads :
          /\ ~thr[t].foreign
          /\ thr[t].pc = "done" =>
                LET f == thr[t]
                    alone == Alone(f.handler, f.args, PyStr(UUIDText(NumUUIDs)))
                    fault == FaultRaised(f.handler, f.args)
                IN  /\ f.result.kind = "return"
                    /\ alone.kind = "return"
                    /\ f.result.value.status = alone.value.status
                    /\ f.result.value.document.variant = alone.value.document.variant
                    /\ f.result.value.document.recordType
                          = alone.value.document.recordType
                    /\ f.result.logged = alone.logged
                    /\ fault =>
                          /\ f.result.value.document.message
                                = alone.value.document.message
                          /\ f.result.value.document.startOffsetMap
                                = alone.value.document.startOffsetMap
                          /\ f.result.value.document.documentId \in UUIDs
                          /\ \E u \in UUIDs : f.result = Alone(f.handler, f.args, u)
                    /\ ~fault => f.result = alone

\* two invocations on the same instance, both past their loop, one of them
\* interleaved inside the other's derivation
StatelessWitness ==
    /\ thr["t1"].inst = "reader1" /\ thr["t2"].inst = "reader1"
    /\ thr["t1"].pc = "done" /\ thr["t2"].pc = "loop" /\ thr["t2"].j = 2
    /\ thr["t1"].args.keys = KeyDict(<<PyStr(<<"A">>), PyStr(<<"B">>)>>)
    /\ thr["t2"].args.keys = KeyDict(<<PyStr(<<"A">>), PyStr(<<"B">>)>>)
    /\ thr["t1"].handler = "parseDynamoDBItem" /\ thr["t2"].handler = "parseRecord"
    /\ thr["t1"].result.value.status = "SUCCESS"
    /\ thr["t1"].result.value.document.documentId = PyStr(<<"A", "|", "B">>)

----------------------------------------------------------------------------
(* Claims on pairs of invocations and on degenerate Key Mappings (Spec)    *)

\* the same key values under other attribute names
AltKeyName(j) == "alt" \o ToString(j)
Renamed(keys) ==
    IF keys.t = "dict"
    THEN PyDict([j \in 1..Len(keys.d) |-> [k |-> AltKeyName(j), v |-> keys.d[j].v]])
    ELSE keys

\* invocations of handler h whose keys yield the values of `keys` in the same
\* order: other attribute names, every payload, other table / event metadata
SameValueCalls(h, keys) ==
    IF h = "parseDynamoDBItem"
    THEN [tableName : {"table", "other"}, segmentNumber : {0, 1},
          keys : {keys, Renamed(keys)}, item : Payloads]
    ELSE [streamArn : {"arn2"}, shardId : {"shard2"}, eventId : {"event2"},
          eventName : {"INSERT", "REMOVE"}, identityPrincipalId : {"other"},
          identityType : {"Service"}, sequenceNumber : {PyStr(<<"300">>)},
          sizeBytes : {128}, streamViewType : {"NEW_IMAGE"},
          approximateCreationDateTime : {1800000000},
          keys : {keys, Renamed(keys)}, oldImage : {None}, newImage : Payloads]

(* C11. Identifier determinism: outside the fault path the identifier of    *)
(* the result depends only on the ordered key values: every invocation, of   *)
(* either handler, whose keys yield the same values in the same order        *)
(* returns the same identifier, whatever the attribute names, the payload,   *)
(* tableName / segmentNumber and the stream event metadata.                  *)
IdentifierDeterminism ==
    (Done /\ ~FaultRaised(handler, args)) =>
        /\ drawn = None
        /\ \A h \in {"parseDynamoDBItem", "parseRecord"} :
           \A b \in SameValueCalls(h, args.keys) :
              ~FaultRaised(h, b) =>
                 LET o == Alone(h, b, PyStr(UUIDText(NumUUIDs)))
                 IN  /\ o.kind = "return"
                     /\ o.value.document.documentId = DocOf.documentId
                     /\ o.value.document.partitionKey = DocOf.partitionKey

\* a stream record with two keys; the table item with the same key values
\* under other names gets the same identifier
IdentifierDeterminismWitness ==
    /\ Done /\ IsRecord
    /\ args.keys = KeyDict(<<PyStr(<<"A">>), PyStr(<<"B">>)>>)
    /\ args.newImage = EmptyDict
    /\ DocOf.documentId = PyStr(<<"A", "|", "B">>)
    /\ \E b \in SameValueCalls("parseDynamoDBItem", args.keys) :
          /\ b.keys # args.keys
          /\ b.item = Dict1("x", PyStr(<<"1">>))
          /\ parseDynamoDBItem(b, PyStr(UUIDText(1))).value.document.documentId
                = PyStr(<<"A", "|", "B">>)

(* C14. Empty Key Mapping: with keys present but without entries the        *)
(* identifier stays undefined and no fault is raised: parseDynamoDBItem      *)
(* returns SUCCESS for a non-empty item and ERROR "empty record" for an      *)
(* empty or absent one, parseRecord returns SUCCESS for a non-empty newImage *)
(* and SKIP for an empty or absent one, always with identifier and partition *)
(* key undefined and without a uuid4 draw.                                   *)
EmptyKeyMapping ==
    (Done /\ args.keys = EmptyDict /\ ~PayloadHasNoLength(PayloadOf(handler, args))) =>
        /\ outcome.kind = "return"
        /\ drawn = None
        /\ DocOf.documentId = None
        /\ DocOf.partitionKey = None
        /\ DocOf.documentId \notin UUIDs
        /\ (IsItem /\ PayloadNonEmpty(args.item)) => ResultOf.status = "SUCCESS"
        /\ (IsItem /\ PayloadAbsentOrEmpty(args.item)) =>
              /\ ResultOf.status = "ERROR"
              /\ DocOf.message = "empty record"
        /\ (IsRecord /\ PayloadNonEmpty(args.newImage)) => ResultOf.status = "SUCCESS"
        /\ (IsRecord /\ PayloadAbsentOrEmpty(args.newImage)) => ResultOf.status = "SKIP"

EmptyKeyMappingWitness ==
    /\ Done /\ IsItem
    /\ args.keys = EmptyDict
    /\ args.item = Dict1("x", PyStr(<<"1">>))
    /\ ResultOf.status = "SUCCESS"
    /\ DocOf.documentId = None

\* the derivation raises: keys absent, or a non-string among several values
DerivationRaises(keys) == keys.t # "dict" \/ ConcatRaises(keys)

(* C16. Fault before guard: the derivation runs before the payload check,   *)
(* so when it raises (keys absent, a non-string among several key values)    *)
(* the result is ERROR with reason text "Exception - <fault message>" and a  *)
(* generated identifier, also for an empty or absent payload:                *)
(* parseDynamoDBItem does not return "empty record" and parseRecord does not *)
(* return SKIP.                                                              *)
FaultBeforeGuard ==
    (Done /\ DerivationRaises(args.keys)) =>
        /\ outcome.kind = "return"
        /\ ResultOf.status = "ERROR"
        /\ DocOf.variant = "ErrorDoc"
        /\ DocOf.message = "Exception - " \o FaultMessage(handler, args)
        /\ DocOf.message # "empty record"
        /\ ResultOf.status # "SKIP"
        /\ drawn \in UUIDs
        /\ DocOf.documentId = drawn

\* keys absent and the item empty
FaultBeforeGuardWitness ==
    /\ Done /\ IsItem
    /\ args.keys = None
    /\ args.item = EmptyDict
    /\ ResultOf.status = "ERROR"
    /\ DocOf.message = "Exception - 'NoneType' object has no attribute 'values'"

\* no value of the Key Mapping holds the separator
SepFree(keys) == \A j \in 1..Len(keys.d) : CountSep(keys.d[j].v.s) = 0

\* the non-empty Key Mappings, and those among them free of the separator
NonEmptyKeyMappings ==
    {k \in KeyMappings : IsKeyMapping(k) /\ Len(k.d) > 0}
SepFreeKeyMappings == {k \in NonEmptyKeyMappings : SepFree(k)}

(* C17. Identifier injectivity: over non-empty Key Mappings whose values    *)
(* are strings without '|', two mappings get the same Derived Identifier,    *)
(* from either handler, only if they have the same number of values and      *)
(* equal values position by position; a value holding '|' can give a mapping *)
(* the identifier of a mapping with other values.                            *)
IdentifierInjective ==
    /\ (Done /\ args.keys \in SepFreeKeyMappings
             /\ ~PayloadHasNoLength(PayloadOf(handler, args))) =>
          \A k \in SepFreeKeyMappings :
              (ItemDocId(k).val = DocOf.documentId \/ RecordDocId(k).val = DocOf.documentId)
                 => KeyTextsOf(k) = KeyTextsOf(args.keys)
    /\ (Done /\ args.keys = KeyDict(<<PyStr(<<"A", "|", "B">>)>>)
             /\ ~PayloadHasNoLength(PayloadOf(handler, args))) =>
          LET two == KeyDict(<<PyStr(<<"A">>), PyStr(<<"B">>)>>)
          IN  /\ ItemDocId(two).val = DocOf.documentId
              /\ RecordDocId(two).val = DocOf.documentId

\* an empty first value next to a single value: "|A" and "A" stay apart
IdentifierInjectiveWitness ==
    /\ Done /\ IsItem
    /\ args.keys = KeyDict(<<PyStr(<<>>), PyStr(<<"A">>)>>)
    /\ args.item = Dict1("x", PyStr(<<"1">>))
    /\ DocOf.documentId = PyStr(<<"|", "A">>)

----------------------------------------------------------------------------
(* SparkMapperInterface.to_map                                             *)

MaxArr == 6

PyList(items) == [t |-> "list", l |-> items]

\* len(arr)
ListLen(arr) == IF arr.t = "list" THEN Ok(Len(arr.l)) ELSE PyLen(arr)

\* mutant: range(0, len(arr), 2)
ToMapRangeFromZero(n) == [j \in 1..((n + 1) \div 2) |-> 2 * j - 2]

\* range(1, len(arr), 2)
ToMapRange(n) == [j \in 1..(n \div 2) |-> 2 * j - 1]

\* arr[i], i counted from 0
Subscript(items, i) ==
    IF i < Len(items) THEN Ok(items[i + 1])
    ELSE Raise("IndexError", "list index out of range")

\* map_value[key] = value
DictSet(entries, key, value) ==
    IF \E j \in 1..Len(entries) : entries[j].k = key
    THEN [j \in 1..Len(entries) |->
            IF entries[j].k = key THEN [k |-> key, v |-> value] ELSE entries[j]]
    ELSE Append(entries, [k |-> key, v |-> value])

\* the for loop from its j-th index on; an exception ends it and leaves
\* map_value as it is
RECURSIVE ToMapLoopFrom(_, _, _, _)
ToMapLoopFrom(items, idxs, j, map_value) ==
    IF j > Len(idxs) THEN [map |-> map_value, ex |-> NoException]
    ELSE LET key == Subscript(items, idxs[j])
             value == Subscript(items, idxs[j] + 1)
         IN  IF ~key.ok THEN [map |-> map_value, ex |-> key.ex]
             ELSE IF ~value.ok THEN [map |-> map_value, ex |-> value.ex]
             ELSE ToMapLoopFrom(items, idxs, j + 1, DictSet(map_value, key.val, value.val))

\* the line printed by the except branch
ToMapPrinted(ex, arr) == [line |-> "error: " \o ex.msg, arr |-> arr]

to_map(arr) ==
    LET n == ListLen(arr)
    IN  IF ~n.ok THEN Return(PyDict(<<>>), ToMapPrinted(n.ex, arr))
        ELSE LET r == ToMapLoopFrom(arr.l, ToMapRange(n.val), 1, <<>>)
             IN  Return(PyDict(r.map),
                        IF r.ex = NoException THEN None ELSE ToMapPrinted(r.ex, arr))

\* header tokens as split(df.header, ': |\r\n') yields them
Tokens == {"WARC/1.0", "k1", "k2", "v1"}
Arrs == {None} \cup {PyList(l) : l \in UNION {[1..n -> Tokens] : n \in 0..MaxArr}}

InitToMap ==
    /\ handler = "to_map"
    /\ args \in [arr : Arrs]
    /\ pc = "call"
    /\ drawn = None
    /\ outcome = NoOutcome
    /\ thr = NoThreads
    /\ mem = NoThreads
    /\ store = NoStore
    /\ calls = NoCalls
    /\ locals = NoLocals

ToMap ==
    /\ handler = "to_map"
    /\ pc = "call"
    /\ outcome' = to_map(args.arr)
    /\ pc' = "done"
    /\ UNCHANGED <<handler, args, drawn, thr, mem>>
    /\ UNCHANGED sparkVars

NextToMap == ToMap

SpecToMap == InitToMap /\ [][NextToMap]_vars

\* the positions (from 0) of the keys that have a value after them
PairedAt(items) == {i \in 0..(Len(items) - 1) : i % 2 = 1 /\ i + 1 < Len(items)}

\* the entries arr[i] -> arr[i+1], a later pair overriding an earlier one
ExpectedEntries(arr) ==
    IF arr.t # "list" THEN {}
    ELSE LET at == PairedAt(arr.l)
             last(k) == CHOOSE i \in at :
                           /\ arr.l[i + 1] = k
                           /\ \A i2 \in at : arr.l[i2 + 1] = k => i2 <= i
         IN  {<<arr.l[i + 1], arr.l[last(arr.l[i + 1]) + 2]>> : i \in at}

EntriesOf(m) == {<<m.d[j].k, m.d[j].v>> : j \in 1..Len(m.d)}

(* C15. to_map never raises and returns exactly the entries                 *)
(* arr[i] -> arr[i+1] for odd i with i+1 < len(arr), element 0 ignored: the  *)
(* trailing key of an even-length list is dropped and the earlier pairs are  *)
(* kept, a repeated key keeps its last value, and None, [] and a one-element *)
(* list give the empty map.                                                  *)
ToMapContract ==
    (handler = "to_map" /\ pc = "done") =>
        /\ outcome.kind = "return"
        /\ outcome.value.t = "dict"
        /\ EntriesOf(outcome.value) = ExpectedEntries(args.arr)
        /\ Cardinality({outcome.value.d[j].k : j \in 1..Len(outcome.value.d)})
              = Len(outcome.value.d)
        /\ (args.arr = None \/ Len(args.arr.l) <= 1) => outcome.value = EmptyDict
        /\ (args.arr # None /\ Len(args.arr.l) >= 2 /\ Len(args.arr.l) % 2 = 0) =>
              /\ outcome.logged # None
              /\ \A i \in PairedAt(args.arr.l) :
                    args.arr.l[i + 1] \in {outcome.value.d[j].k : j \in 1..Len(outcome.value.d)}
              /\ \A e \in EntriesOf(outcome.value) :
                    \E i \in 1..(Len(args.arr.l) - 2) :
                        i % 2 = 0 /\ e = <<args.arr.l[i], args.arr.l[i + 1]>>

\* a repeated key with a trailing key after it
ToMapContractWitness ==
    /\ handler = "to_map" /\ pc = "done"
    /\ args.arr = PyList(<<"k1", "k1", "v1", "k1", "k2", "k2">>)
    /\ outcome.value = PyDict(<<[k |-> "k1", v |-> "k2"]>>)
    /\ outcome.logged # None

----------------------------------------------------------------------------
(* SparkMapperInterface.mapper and SparkReducerInterface.reducer           *)

MaxRows == 2
MaxUris == 2

Uris == {"s3a://in/1", "s3a://in/2"}
WriteUris == {"s3a://out/1"}

\* mutant: the stage name of the mapper in both jobs
StageNameMapper(h) == "mapper"

\* the stage name passed to get_spark_aws_credentials
StageName(h) == h

\* the external calls, as the trace records them
CredentialsCall(stage, direction) ==
    [fn |-> "get_spark_aws_credentials", stage |-> stage, direction |-> direction]
SessionCall(readUri, writeUri) ==
    [fn |-> "createSparkSession", readUri |-> readUri, writeUri |-> writeUri]
ReadCall(readUri) == [fn |-> "readSparkDataframe", readUri |-> readUri]
WriteCall(writeUri, df) == [fn |-> "writeSparkDataframe", writeUri |-> writeUri, df |-> df]

\* an external call that fails raises into the job, which has no try
ExternalFault(fn) == [cls |-> "Exception", msg |-> fn \o " failed"]

\* a dataframe over the rows it holds
DataFrame(rows) == [t |-> "df", rows |-> rows]

\* the value of header_map[name]: null when the key is missing
MapGet(m, name) ==
    IF \E j \in 1..Len(m.d) : m.d[j].k = name
    THEN (m.d[CHOOSE j \in 1..Len(m.d) : m.d[j].k = name]).v
    ELSE "null"

\* cast('integer') of a column text: null for a text that is no number
CastInteger(text) ==
    CASE text = "10" -> PyInt(10)
      [] text = "20" -> PyInt(20)
      [] text = "30" -> PyInt(30)
      [] OTHER -> None

\* the selected columns of one document (the columns of WARC-Date,
\* WARC-Record-ID, Content-Type, WARC-Refers-To and WARC-Block-Digest are
\* selected in the same way and left out here)
MapperSelect(row) ==
    LET header_map == to_map(PyList(row.h)).value
    IN  [contentLength |-> CastInteger(MapGet(header_map, "Content-Length")),
         warcType |-> MapGet(header_map, "WARC-Type"),
         language |-> MapGet(header_map, "WARC-Identified-Content-Language"),
         url |-> MapGet(header_map, "WARC-Target-URI"),
         docId |-> MapGet(header_map, "WARC-Target-URI"),
         partitionKey |-> MapGet(header_map, "WARC-Target-URI"),
         docText |-> row.payload]

\* .where(col('warcType') == lit('conversion'))
MapperWhere(rows) == SelectSeq(rows, LAMBDA r : r.warcType = "conversion")

\* the dataframe mapper writes, from the dataframe of (h, payload) rows
MapperTransform(df) ==
    DataFrame(MapperWhere([j \in 1..Len(df.rows) |-> MapperSelect(df.rows[j])]))

\* groupBy("language"): the languages of the rows
Languages(df) == {df[j].language : j \in 1..Len(df)}

\* the contentLength values of a language that are not null
RECURSIVE SamplesFrom(_, _, _)
SamplesFrom(df, lang, j) ==
    IF j > Len(df) THEN <<>>
    ELSE IF df[j].language = lang /\ df[j].contentLength.t = "int"
         THEN <<df[j].contentLength.n>> \o SamplesFrom(df, lang, j + 1)
         ELSE SamplesFrom(df, lang, j + 1)
Samples(df, lang) == SamplesFrom(df, lang, 1)

\* ascending order
RECURSIVE Insert(_, _)
Insert(sorted, x) ==
    IF sorted = <<>> THEN <<x>>
    ELSE IF x <= Head(sorted) THEN <<x>> \o sorted
    ELSE <<Head(sorted)>> \o Insert(Tail(sorted), x)
RECURSIVE SortAsc(_)
SortAsc(xs) == IF xs = <<>> THEN <<>> ELSE Insert(SortAsc(Tail(xs)), Head(xs))

\* percentile('contentLength', 0.90): the value at position 0.9 * (n - 1) of
\* the ascending samples, interpolated between neighbours; in tenths
Percentile90(xs) ==
    IF xs = <<>> THEN None
    ELSE LET v == SortAsc(xs)
             pos == 9 * (Len(v) - 1)
             lower == pos \div 10
             frac == pos % 10
         IN  [t |-> "double",
              tenths |-> IF frac = 0 THEN 10 * v[lower + 1]
                         ELSE 10 * v[lower + 1] + frac * (v[lower + 2] - v[lower + 1])]

\* one row of the aggregate
GroupRow(df, lang) ==
    [language |-> lang,
     percentile90 |-> Percentile90(Samples(df, lang)),
     samples |-> Len(Samples(df, lang))]

\* groupBy / agg over the rows of a dataframe, then
\* orderBy(desc('# of Samples')): every order of the group rows in which the
\* counts do not grow; rows with equal counts come in either order
Aggregates(df) ==
    LET langs == Languages(df)
        n == Cardinality(langs)
    IN  {[j \in 1..n |-> GroupRow(df, f[j])] :
            f \in {g \in [1..n -> langs] :
                     /\ \A a, b \in 1..n : a # b => g[a] # g[b]
                     /\ \A a, b \in 1..n :
                           a < b => Len(Samples(df, g[a])) >= Len(Samples(df, g[b]))}}

\* mutant: dataframe = dataframe.union(currDataFrame)
ReducerUnionAssigned(dataframe, currDataFrame) ==
    DataFrame(dataframe.rows \o currDataFrame.rows)

\* dataframe.union(currDataFrame) as a statement: the union is a new
\* dataframe, which the statement drops; dataframe stays what it was
ReducerUnion(dataframe, currDataFrame) == dataframe

\* documents as line 139 leaves them: header tokens and payload
MapperRows ==
    << [h |-> <<"WARC/1.0", "WARC-Type", "conversion",
                "WARC-Identified-Content-Language", "en", "Content-Length", "10",
                "WARC-Target-URI", "http://a">>,
        payload |-> "text a"],
       [h |-> <<"WARC/1.0", "WARC-Type", "warcinfo", "Content-Length", "20">>,
        payload |-> "info"],
       [h |-> <<"WARC/1.0", "WARC-Type", "conversion", "Content-Length", "x",
                "WARC-Target-URI">>,
        payload |-> "text b"] >>

\* rows as mapper writes them, reduced to the columns reducer uses
ReducerRows ==
    << [language |-> "en", contentLength |-> PyInt(10)],
       [language |-> "en", contentLength |-> PyInt(30)],
       [language |-> "en", contentLength |-> None],
       [language |-> "fr", contentLength |-> PyInt(20)] >>

\* the files of up to MaxRows rows; the order of rows in a file is not
\* observable, so one order stands for each file
Files(rows) ==
    UNION {{[j \in 1..n |-> rows[f[j]]] :
              f \in {g \in [1..n -> 1..Len(rows)] :
                       \A a, b \in 1..n : a < b => g[a] <= g[b]}} : n \in 0..MaxRows}

ReadUriLists == UNION {[1..n -> Uris] : n \in 0..MaxUris}

MapperArgs == [appName : {"app"}, readUri : Uris, writeUri : WriteUris]
ReducerArgs == [appName : {"app"}, readUris : ReadUriLists, writeUri : WriteUris]

NewLocals ==
    [readCredentials |-> None, writeCredentials |-> None, spark |-> None,
     readUri |-> 0, currDataFrame |-> None, dataframe |-> None, df |-> None]

InitSpark ==
    /\ handler \in {"mapper", "reducer"}
    /\ args \in (IF handler = "mapper" THEN MapperArgs ELSE ReducerArgs)
    /\ store \in [Uris -> Files(IF handler = "mapper" THEN MapperRows ELSE ReducerRows)]
    /\ pc = "get_read_destination_credentials"
    /\ drawn = None
    /\ outcome = NoOutcome
    /\ thr = NoThreads
    /\ mem = NoThreads
    /\ calls = NoCalls
    /\ locals = NewLocals

\* an external call: it is made, then it returns and the job goes on at
\* `next`, with the locals `after`, or it raises and the job ends
External(call, next, after) ==
    /\ calls' = Append(calls, call)
    /\ \E raises \in BOOLEAN :
          IF raises
          THEN /\ pc' = "done"
               /\ outcome' = Propagate(ExternalFault(call.fn))
               /\ locals' = locals
          ELSE /\ pc' = next
               /\ outcome' = outcome
               /\ locals' = after

GetReadDestinationCredentials ==
    /\ pc = "get_read_destination_credentials"
    /\ External(CredentialsCall(StageName(handler), "read"),
                "get_write_destination_credentials",
                [locals EXCEPT !.readCredentials =
                    [stage |-> StageName(handler), direction |-> "read"]])
    /\ UNCHANGED <<handler, args, drawn, thr, mem, store>>

GetWriteDestinationCredentials ==
    /\ pc = "get_write_destination_credentials"
    /\ External(CredentialsCall(StageName(handler), "write"),
                "createSparkSession",
                [locals EXCEPT !.writeCredentials =
                    [stage |-> StageName(handler), direction |-> "write"]])
    /\ UNCHANGED <<handler, args, drawn, thr, mem, store>>

\* mapper passes readUri, reducer readUris[0]
CreateSparkSession ==
    /\ pc = "createSparkSession"
    /\ IF handler = "reducer" /\ Len(args.readUris) = 0
       THEN /\ pc' = "done"
            /\ outcome' = Propagate([cls |-> "IndexError", msg |-> "list index out of range"])
            /\ UNCHANGED <<calls, locals>>
       ELSE External(SessionCall(IF handler = "mapper" THEN args.readUri
                                 ELSE args.readUris[1], args.writeUri),
                     IF handler = "mapper" THEN "readSparkDataframe" ELSE "for",
                     [locals EXCEPT !.spark = "spark", !.readUri = 1])
    /\ UNCHANGED <<handler, args, drawn, thr, mem, store>>

MapperRead ==
    /\ handler = "mapper"
    /\ pc = "readSparkDataframe"
    /\ External(ReadCall(args.readUri), "select",
                [locals EXCEPT !.df = DataFrame(store[args.readUri])])
    /\ UNCHANGED <<handler, args, drawn, thr, mem, store>>

MapperSelectWhere ==
    /\ handler = "mapper"
    /\ pc = "select"
    /\ locals' = [locals EXCEPT !.df = MapperTransform(locals.df)]
    /\ pc' = "writeSparkDataframe"
    /\ UNCHANGED <<handler, args, drawn, outcome, thr, mem, store, calls>>

\* one iteration of `for readUri in readUris`
ReducerRead ==
    /\ handler = "reducer"
    /\ pc = "for"
    /\ locals.readUri <= Len(args.readUris)
    /\ LET readUri == args.readUris[locals.readUri]
           currDataFrame == DataFrame(store[readUri])
       IN  External(ReadCall(readUri), "for",
                    [locals EXCEPT
                       !.readUri = locals.readUri + 1,
                       !.currDataFrame = currDataFrame,
                       !.dataframe = IF locals.dataframe.t = "none" THEN currDataFrame
                                     ELSE ReducerUnion(locals.dataframe, currDataFrame)])
    /\ UNCHANGED <<handler, args, drawn, thr, mem, store>>

\* after the loop: groupBy / agg / orderBy
ReducerAggregate ==
    /\ handler = "reducer"
    /\ pc = "for"
    /\ locals.readUri > Len(args.readUris)
    /\ \E aggregate \in Aggregates(locals.dataframe.rows) :
          locals' = [locals EXCEPT !.dataframe = DataFrame(aggregate)]
    /\ pc' = "writeSparkDataframe"
    /\ UNCHANGED <<handler, args, drawn, outcome, thr, mem, store, calls>>

WriteSparkDataframe ==
    /\ pc = "writeSparkDataframe"
    /\ calls' = Append(calls, WriteCall(args.writeUri,
                          IF handler = "mapper" THEN locals.df ELSE locals.dataframe))
    /\ \E raises \in BOOLEAN :
          outcome' = IF raises THEN Propagate(ExternalFault("writeSparkDataframe"))
                     ELSE Return(None, None)
    /\ pc' = "done"
    /\ UNCHANGED <<handler, args, drawn, thr, mem, store, locals>>

NextSpark ==
    \/ GetReadDestinationCredentials
    \/ GetWriteDestinationCredentials
    \/ CreateSparkSession
    \/ MapperRead
    \/ MapperSelectWhere
    \/ ReducerRead
    \/ ReducerAggregate
    \/ WriteSparkDataframe

SpecSpark == InitSpark /\ [][NextSpark]_vars

----------------------------------------------------------------------------
(* Claims on the Spark jobs (SpecSpark)                                    *)

IsMapper == handler = "mapper"
IsReducer == handler = "reducer"
Returned == pc = "done" /\ outcome.kind = "return"

\* the dataframe handed to writeSparkDataframe
Written == calls[Len(calls)].df

\* the rows of a file that have a contentLength for a language
CountIn(file, lang) ==
    Cardinality({k \in 1..Len(file) :
                   file[k].language = lang /\ file[k].contentLength # None})

\* the same, summed over the files of readUris from position j on
RECURSIVE CountFrom(_, _, _)
CountFrom(readUris, lang, j) ==
    IF j > Len(readUris) THEN 0
    ELSE CountIn(store[readUris[j]], lang) + CountFrom(readUris, lang, j + 1)

\* the languages of the rows of all the files of readUris
LanguagesRead(readUris) ==
    UNION {Languages(store[readUris[j]]) : j \in 1..Len(readUris)}

(* C12. Reducer input union: the dataframe reducer groups, aggregates and   *)
(* writes holds the rows of every file of readUris: it has one row for each  *)
(* language of those files, and the sample count of a language is the number *)
(* of its rows with a contentLength, summed over all readUris.               *)
ReducerInputUnion ==
    (IsReducer /\ Returned) =>
        /\ {Written.rows[j].language : j \in 1..Len(Written.rows)}
              = LanguagesRead(args.readUris)
        /\ \A j \in 1..Len(Written.rows) :
              Written.rows[j].samples
                 = CountFrom(args.readUris, Written.rows[j].language, 1)

\* two uris, the second file with a row of a language the first lacks: the
\* written dataframe has no row for that language
ReducerInputUnionWitness ==
    /\ IsReducer /\ Returned
    /\ args.readUris = <<"s3a://in/1", "s3a://in/2">>
    /\ store["s3a://in/1"] = <<[language |-> "en", contentLength |-> PyInt(10)]>>
    /\ store["s3a://in/2"] = <<[language |-> "fr", contentLength |-> PyInt(20)]>>
    /\ Written.rows = <<[language |-> "en",
                         percentile90 |-> [t |-> "double", tenths |-> 100],
                         samples |-> 1]>>

\* a call of the trace without the dataframe it carries
CallShape(c) ==
    IF c.fn = "writeSparkDataframe" THEN [fn |-> c.fn, writeUri |-> c.writeUri] ELSE c

IsPrefix(p, q) == Len(p) <= Len(q) /\ \A j \in 1..Len(p) : p[j] = q[j]

\* the uris a job reads, in order
UrisToRead(h, a) == IF h = "mapper" THEN <<a.readUri>> ELSE a.readUris

\* the calls of a complete job, in order
ExpectedCalls(h, a) ==
    LET uris == UrisToRead(h, a)
    IN  << [fn |-> "get_spark_aws_credentials", stage |-> h, direction |-> "read"],
           [fn |-> "get_spark_aws_credentials", stage |-> h, direction |-> "write"],
           [fn |-> "createSparkSession", readUri |-> uris[1], writeUri |-> a.writeUri] >>
        \o [j \in 1..Len(uris) |-> [fn |-> "readSparkDataframe", readUri |-> uris[j]]]
        \o << [fn |-> "writeSparkDataframe", writeUri |-> a.writeUri] >>

(* C13. Order of external calls: in a mapper invocation and in a reducer    *)
(* invocation with non-empty readUris the calls made so far are always the   *)
(* beginning of: read credentials, write credentials (both with the job's    *)
(* own stage name), one session creation, the dataframe reads (one for       *)
(* mapper, one per element of readUris in list order for reducer), one       *)
(* write; a job that returns has made all of them, the write is the last     *)
(* call and comes after every read, and a shorter sequence is left only by   *)
(* a call that raised.                                                       *)
CallOrder ==
    ((IsMapper \/ IsReducer) /\ Len(UrisToRead(handler, args)) > 0) =>
        LET shape == [j \in 1..Len(calls) |-> CallShape(calls[j])]
            expected == ExpectedCalls(handler, args)
        IN  /\ IsPrefix(shape, expected)
            /\ Returned => shape = expected
            /\ \A j \in 1..Len(calls) :
                  calls[j].fn = "writeSparkDataframe" =>
                     /\ j = Len(calls)
                     /\ Cardinality({i \in 1..(j - 1) : calls[i].fn = "readSparkDataframe"})
                           = Len(UrisToRead(handler, args))
                     /\ Cardinality({i \in 1..(j - 1) : calls[i].fn = "createSparkSession"}) = 1
            /\ (pc = "done" /\ outcome.kind = "raise") =>
                  /\ Len(calls) > 0
                  /\ outcome.ex = ExternalFault(calls[Len(calls)].fn)

\* a reducer over two uris in an order of its own has made its six calls
CallOrderWitness ==
    /\ IsReducer /\ Returned
    /\ args.readUris = <<"s3a://in/2", "s3a://in/1">>
    /\ Len(calls) = 6
    /\ calls[1] = CredentialsCall("reducer", "read")
    /\ calls[4] = ReadCall("s3a://in/2")
    /\ calls[5] = ReadCall("s3a://in/1")
    /\ calls[6].fn = "writeSparkDataframe"

====
